---- MODULE Spec2Model ----
(***************************************************************************)
(* Model of kuna/kuna.py: the KunaAPI client.  A client holds a key pair,  *)
(* every API method builds one request in _request, hands it to urlopen    *)
(* and turns the response into a return value or an exception.             *)
(*                                                                         *)
(* Python values are tagged records (None, str, int, list, dict).  Text is *)
(* a TLA+ string; urlencode, json.dumps and str(int) are computed          *)
(* character by character.  HMAC-SHA384 is an ideal keyed hash: its hex    *)
(* digest is the symbolic term of its key and message.                     *)
(***************************************************************************)
EXTENDS Integers, Sequences, FiniteSets, TLC

\* ------------------------------------------------------------------ bounds
MaxTicks == 1     \* milliseconds the clock may advance
T0 == 9           \* clock reading (ms) when the client is constructed

\* ---------------------------------------------------------- Python values
None == [t |-> "None"]
S(s) == [t |-> "str", v |-> s]
I(n) == [t |-> "int", v |-> n]
L(xs) == [t |-> "list", v |-> xs]
D(kvs) == [t |-> "dict", v |-> kvs]

\* Python truthiness of the argument values used by the methods
Truthy(x) ==
    CASE x.t = "None" -> FALSE
      [] x.t = "str" -> x.v # ""
      [] x.t = "int" -> x.v # 0
      [] OTHER -> x.v # <<>>

\* ------------------------------------------------------------ text helpers
\* the alphabet has one character outside ASCII
NonAsciiChar == "é"

Char(s, i) == SubSeq(s, i, i)

IsAscii(s) == \A i \in 1..Len(s) : Char(s, i) # NonAsciiChar

Contains(s, k) ==
    \E i \in 1..(Len(s) - Len(k) + 1) : SubSeq(s, i, i + Len(k) - 1) = k

RECURSIVE Join(_, _)
Join(sep, xs) == IF xs = <<>> THEN ""
                 ELSE IF Len(xs) = 1 THEN xs[1]
                 ELSE xs[1] \o sep \o Join(sep, Tail(xs))

\* str.lower() on the ASCII letters
LowerChar(c) ==
    CASE c = "A" -> "a" [] c = "B" -> "b" [] c = "C" -> "c" [] c = "D" -> "d"
      [] c = "E" -> "e" [] c = "F" -> "f" [] c = "G" -> "g" [] c = "H" -> "h"
      [] c = "I" -> "i" [] c = "J" -> "j" [] c = "K" -> "k" [] c = "L" -> "l"
      [] c = "M" -> "m" [] c = "N" -> "n" [] c = "O" -> "o" [] c = "P" -> "p"
      [] c = "Q" -> "q" [] c = "R" -> "r" [] c = "S" -> "s" [] c = "T" -> "t"
      [] c = "U" -> "u" [] c = "V" -> "v" [] c = "W" -> "w" [] c = "X" -> "x"
      [] c = "Y" -> "y" [] c = "Z" -> "z"
      [] OTHER -> c

lower(s) == Join("", [i \in 1..Len(s) |-> LowerChar(Char(s, i))])

\* str(int(...)): decimal digits of a non-negative or negative integer
str_int(n) == ToString(n)

\* ------------------------------------------------------------- json.dumps
JsonEscapeChar(c) ==
    CASE c = "\"" -> "\\\""
      [] c = "\\" -> "\\\\"
      [] c = NonAsciiChar -> "\\u00e9"
      [] OTHER -> c

JsonEscape(s) == Join("", [i \in 1..Len(s) |-> JsonEscapeChar(Char(s, i))])

RECURSIVE json_dumps(_)
json_dumps(x) ==
    CASE x.t = "None" -> "null"
      [] x.t = "str" -> "\"" \o JsonEscape(x.v) \o "\""
      [] x.t = "int" -> str_int(x.v)
      [] x.t = "list" ->
            "[" \o Join(", ", [i \in 1..Len(x.v) |-> json_dumps(x.v[i])]) \o "]"
      [] x.t = "dict" ->
            "{" \o Join(", ", [i \in 1..Len(x.v) |->
                     "\"" \o JsonEscape(x.v[i][1]) \o "\": "
                     \o json_dumps(x.v[i][2])]) \o "}"

\* -------------------------------------------------------------- urlencode
AlwaysSafe ==
    {"A", "B", "C", "D", "E", "F", "G", "H", "I", "J", "K", "L", "M",
     "N", "O", "P", "Q", "R", "S", "T", "U", "V", "W", "X", "Y", "Z",
     "a", "b", "c", "d", "e", "f", "g", "h", "i", "j", "k", "l", "m",
     "n", "o", "p", "q", "r", "s", "t", "u", "v", "w", "x", "y", "z",
     "0", "1", "2", "3", "4", "5", "6", "7", "8", "9", "_", ".", "-", "~"}

quote_plus_char(c) ==
    CASE c \in AlwaysSafe -> c
      [] c = " " -> "+"
      [] c = "," -> "%2C"
      [] c = "/" -> "%2F"
      [] c = "=" -> "%3D"
      [] c = "&" -> "%26"
      [] c = "?" -> "%3F"
      [] c = NonAsciiChar -> "%C3%A9"

quote_plus(s) == Join("", [i \in 1..Len(s) |-> quote_plus_char(Char(s, i))])

\* args: the dict as a sequence of <<key, value>> pairs of strings
urlencode(args) ==
    Join("&", [i \in 1..Len(args) |->
                 quote_plus(args[i][1]) \o "=" \o quote_plus(args[i][2])])

\* ------------------------------------------------- json.load and repr
BodyMessages == "{\"messages\": [\"bad\"]}"
BodyDict == "{\"error\": \"x\"}"
BodyString == "\"oops\""
BodyHtml == "<html>Bad Gateway</html>"

Bodies == {BodyMessages, BodyDict, BodyString, BodyHtml}

\* json.load on the response bodies of the model: the parsed value, or the
\* JSONDecodeError that a body that is not JSON gives
json_load(text) ==
    CASE text = BodyMessages ->
            [ok |-> TRUE, value |-> D(<<<<"messages", L(<<S("bad")>>)>>>>)]
      [] text = BodyDict ->
            [ok |-> TRUE, value |-> D(<<<<"error", S("x")>>>>)]
      [] text = BodyString -> [ok |-> TRUE, value |-> S("oops")]
      [] OTHER -> [ok |-> FALSE, value |-> None]

RECURSIVE repr(_)
repr(x) ==
    CASE x.t = "None" -> "None"
      [] x.t = "str" -> "'" \o x.v \o "'"
      [] x.t = "int" -> str_int(x.v)
      [] x.t = "list" ->
            "[" \o Join(", ", [i \in 1..Len(x.v) |-> repr(x.v[i])]) \o "]"
      [] x.t = "dict" ->
            "{" \o Join(", ", [i \in 1..Len(x.v) |->
                     "'" \o x.v[i][1] \o "': " \o repr(x.v[i][2])]) \o "}"

DictHas(d, k) == \E i \in 1..Len(d.v) : d.v[i][1] = k
DictGet(d, k) == d.v[CHOOSE i \in 1..Len(d.v) : d.v[i][1] = k][2]

\* ------------------------------------------------------------- outcomes
NoMessage == [t |-> "n/a"]
Return(v) == [kind |-> "return", exc |-> "", message |-> NoMessage, value |-> v]
Raise(e, m) == [kind |-> "raise", exc |-> e, message |-> m, value |-> None]

\* raise APIError(result): result is the HTTPError of a response or a value
HTTPError(resp) == [t |-> "HTTPError", status |-> resp.status, body |-> resp.body]

\* the message taken from the whole value, the messages field ignored
APIError_loaded_repr(loaded) ==
    IF ~loaded.ok THEN Raise("JSONDecodeError", NoMessage)
    ELSE IF loaded.value.t = "str" THEN Raise("APIError", loaded.value)
    ELSE Raise("APIError", S(repr(loaded.value)))

\* APIError.__init__ after  result = json.load(result): the JSONDecodeError
\* of json.load escapes, else the message is chosen from the value
APIError_loaded(loaded) ==
    IF ~loaded.ok THEN Raise("JSONDecodeError", NoMessage)
    ELSE IF loaded.value.t = "dict" /\ DictHas(loaded.value, "messages")
    THEN Raise("APIError", DictGet(loaded.value, "messages"))
    ELSE IF loaded.value.t = "str" THEN Raise("APIError", loaded.value)
    ELSE Raise("APIError", S(repr(loaded.value)))

APIError(result) ==
    IF result.t = "HTTPError"
    THEN APIError_loaded(json_load(result.body))
    ELSE APIError_loaded([ok |-> TRUE, value |-> result])

\* ---------------------------------------------------------------- state
VARIABLES
    public_key,        \* KunaAPI.public_key: None or a str
    private_key,       \* KunaAPI.private_key: None or a str
    DEFAULT_HEADERS,   \* the module-level header dict
    now,               \* int(time.time() * 1000)
    nonce_before,      \* kun-nonce of the authenticated request transmitted
                       \* before the most recent call: <<>> or <<nonce>>
    last               \* the most recent API call and what came of it

vars == <<public_key, private_key, DEFAULT_HEADERS, now, nonce_before, last>>

endpoint == "https://api.kuna.io"
prefix == "/v3"

KEYS_NEED_MESSAGE == "API initialized without public or private key."

SetItem(h, k, v) == (k :> v) @@ h

\* hmac.new(key, msg, hashlib.sha384).hexdigest()
hexdigest(key, msg) == [t |-> "hexdigest", alg |-> "sha384", key |-> key, msg |-> msg]

\* the responses of the exchange, and a transport that cannot connect
Response(status, body) == [kind |-> "response", status |-> status, body |-> body]
NoResponse == [kind |-> "URLError", status |-> 0, body |-> ""]
Responses ==
    {Response(200, BodyDict), Response(200, BodyHtml),
     Response(422, BodyMessages), Response(422, BodyDict),
     Response(422, BodyString), Response(502, BodyHtml), NoResponse}

\* _check_keys: with error=True the APIError is built and dropped, with
\* error=False a warning is issued; neither raises
_check_keys(error) ==
    LET missing == (public_key = None) \/ (private_key = None)
    IN  [raises |-> FALSE, warns |-> missing /\ ~error]

\* the signed string put together in another order
_generate_sign_swapped(uri, body, nonce) ==
    LET payload == uri \o body \o nonce
    IN  IF ~IsAscii(payload)
        THEN [exc |-> "UnicodeEncodeError", value |-> None]
        ELSE IF private_key = None
        THEN [exc |-> "AttributeError", value |-> None]
        ELSE [exc |-> "", value |-> hexdigest(private_key.v, payload)]

_generate_sign(uri, body, nonce) ==
    LET payload == uri \o nonce \o body
    IN  IF ~IsAscii(payload)
        THEN [exc |-> "UnicodeEncodeError", value |-> None]
        ELSE IF private_key = None
        THEN [exc |-> "AttributeError", value |-> None]
        ELSE [exc |-> "", value |-> hexdigest(private_key.v, payload)]

\* headers = DEFAULT_HEADERS without the copy
headers_alias(d) == [h |-> d, aliased |-> TRUE]

\* headers = DEFAULT_HEADERS.copy(): a new dict, not an alias of the default
headers_copy(d) == [h |-> d, aliased |-> FALSE]

\* the verb chosen the wrong way round
http_method_flipped(is_user_method) == IF is_user_method THEN "GET" ELSE "POST"

http_method(is_user_method) == IF is_user_method THEN "POST" ELSE "GET"

\* urlopen(req): http.client rejects a request line outside ASCII and a
\* header value that is not text before it connects; then the response
urlopen(req, resp) ==
    IF ~IsAscii(req.url) THEN [transmitted |-> FALSE, exc |-> "UnicodeEncodeError"]
    ELSE IF \E k \in DOMAIN req.headers : req.headers[k] = None
    THEN [transmitted |-> FALSE, exc |-> "TypeError"]
    ELSE IF resp.kind = "URLError" THEN [transmitted |-> FALSE, exc |-> "URLError"]
    ELSE IF resp.status >= 200 /\ resp.status < 300
    THEN [transmitted |-> TRUE, exc |-> ""]
    ELSE [transmitted |-> TRUE, exc |-> "HTTPError"]

\* the wrong key of the pair in the header
kun_apikey_private == private_key

\* headers['kun-apikey'] = self.public_key
kun_apikey == public_key

\* uri = self.prefix + path, the query string appended to path when args
request_uri(path, args) ==
    prefix \o (IF args # <<>> THEN path \o "?" \o urlencode(args) ELSE path)

\* the branch  if is_user_method:  of _request, from the values computed
\* before it: the request (none when signing raised), the exception raised
\* so far, and DEFAULT_HEADERS afterwards
request_signed(uri, body, nonce, hc, check, sign) ==
    LET h2 == SetItem(SetItem(hc.h, "kun-nonce", S(nonce)), "kun-apikey", kun_apikey)
        h3 == SetItem(h2, "kun-signature", sign.value)
    IN  IF check.raises
        THEN [req |-> <<>>, outcome |-> Raise("APIError", S(KEYS_NEED_MESSAGE)),
              defaults |-> DEFAULT_HEADERS]
        ELSE IF sign.exc # ""
        THEN [req |-> <<>>, outcome |-> Raise(sign.exc, NoMessage),
              defaults |-> IF hc.aliased THEN h2 ELSE DEFAULT_HEADERS]
        ELSE [req |-> <<[method |-> http_method(TRUE), url |-> endpoint \o uri,
                         data |-> body, headers |-> h3]>>,
              outcome |-> Return(None),
              defaults |-> IF hc.aliased THEN h3 ELSE DEFAULT_HEADERS]

\* the branch  else:  of _request
request_plain(uri, body, hc) ==
    [req |-> <<[method |-> http_method(FALSE), url |-> endpoint \o uri,
                data |-> body, headers |-> hc.h]>>,
     outcome |-> Return(None),
     defaults |-> DEFAULT_HEADERS]

request_with(uri, body, nonce, hc, is_user_method) ==
    IF is_user_method
    THEN request_signed(uri, body, nonce, hc, _check_keys(TRUE),
                        _generate_sign(uri, body, nonce))
    ELSE request_plain(uri, body, hc)

\* _request up to  req = Request(url, body.encode(), headers, method=method)
_request_build(path, args, body, is_user_method) ==
    request_with(request_uri(path, args), json_dumps(body), str_int(now),
                 headers_copy(DEFAULT_HEADERS), is_user_method)

\* the try / except / else around urlopen(req)
request_result(opened, resp) ==
    [transmitted |-> opened.transmitted,
     resp |-> IF opened.transmitted THEN resp ELSE NoResponse,
     outcome |->
        IF opened.exc = "HTTPError" THEN APIError(HTTPError(resp))
        ELSE IF opened.exc # "" THEN Raise(opened.exc, NoMessage)
        ELSE IF json_load(resp.body).ok THEN Return(json_load(resp.body).value)
        ELSE Raise("JSONDecodeError", NoMessage)]

\* _request from  urlopen(req)  on: whether the request was transmitted,
\* the response that was read, and the value returned or exception raised
_request_open(built, resp) ==
    IF built.req = <<>>
    THEN [transmitted |-> FALSE, resp |-> NoResponse, outcome |-> built.outcome]
    ELSE request_result(urlopen(built.req[1], resp), resp)

\* -------------------------------------------------------- construction
DefaultHeaders0 ==
    ("accept" :> S("application/json"))
    @@ ("content-type" :> S("application/json"))
    @@ ("user-agent" :> S("python-kuna/0.4.0"))

PublicKeys == {None, S("pub")}
PrivateKeys == {None, S("secret")}

\* KunaAPI(public_key, private_key): __init__ stores the keys and only warns
Init ==
    /\ public_key \in PublicKeys
    /\ private_key \in PrivateKeys
    /\ DEFAULT_HEADERS = DefaultHeaders0
    /\ now = T0
    /\ nonce_before = <<>>
    /\ last = [op |-> "__init__", input |-> None, is_user_method |-> FALSE,
               path |-> "", args |-> <<>>, body |-> D(<<>>),
               resp |-> NoResponse, req |-> <<>>, transmitted |-> FALSE,
               outcome |-> Return(None)]

\* the clock of time.time() moves on between calls
Tick ==
    /\ now < T0 + MaxTicks
    /\ now' = now + 1
    /\ UNCHANGED <<public_key, private_key, DEFAULT_HEADERS, nonce_before, last>>

\* what every call leaves behind for the next one
Remember ==
    /\ nonce_before' = IF last.transmitted /\ last.is_user_method
                       THEN <<last.req[1].headers["kun-nonce"].v>>
                       ELSE nonce_before
    /\ UNCHANGED <<public_key, private_key, now>>

\* a method that ends in  return self._request(path, args, body, is_user_method)
Call(op, input, path, args, body, is_user_method) ==
    \E built \in {_request_build(path, args, body, is_user_method)} :
        \E resp \in Responses :
            \E r \in {_request_open(built, resp)} :
                /\ last' = [op |-> op, input |-> input,
                            is_user_method |-> is_user_method,
                            path |-> path, args |-> args, body |-> body,
                            resp |-> r.resp, req |-> built.req,
                            transmitted |-> r.transmitted, outcome |-> r.outcome]
                /\ DEFAULT_HEADERS' = built.defaults
                /\ Remember

\* a method that raises exc with the given message before it reaches _request
Fail(op, input, is_user_method, exc, message) ==
    /\ last' = [op |-> op, input |-> input, is_user_method |-> is_user_method,
                path |-> "", args |-> <<>>, body |-> D(<<>>),
                resp |-> NoResponse, req |-> <<>>, transmitted |-> FALSE,
                outcome |-> Raise(exc, message)]
    /\ UNCHANGED DEFAULT_HEADERS
    /\ Remember

\* ------------------------------------------------------------ public API
Markets == {S("btcuah"), S("é")}
OptMarkets == {None} \cup Markets
Currencies == {None, S("uah")}
SymbolArgs == {None, S("btcuah"), S("a,b"), L(<<S("a"), S("b")>>)}

timestamp == Call("timestamp", None, "/timestamp", <<>>, D(<<>>), FALSE)

currencies == Call("currencies", None, "/currencies", <<>>, D(<<>>), FALSE)

exchange_rates ==
    \E currency \in Currencies :
        Call("exchange_rates", currency,
             IF Truthy(currency) THEN "/exchange-rates/" \o currency.v
             ELSE "/exchange-rates",
             <<>>, D(<<>>), FALSE)

markets == Call("markets", None, "/markets", <<>>, D(<<>>), FALSE)

\* the list joined by blanks
tickers_args_blank(symbols) ==
    IF symbols.t = "str" THEN <<<<"symbols", symbols.v>>>>
    ELSE IF symbols.t = "list"
    THEN <<<<"symbols", Join(" ", [i \in 1..Len(symbols.v) |-> symbols.v[i].v])>>>>
    ELSE <<<<"symbols", "ALL">>>>

tickers_args(symbols) ==
    IF symbols.t = "str" THEN <<<<"symbols", symbols.v>>>>
    ELSE IF symbols.t = "list"
    THEN <<<<"symbols", Join(",", [i \in 1..Len(symbols.v) |-> symbols.v[i].v])>>>>
    ELSE <<<<"symbols", "ALL">>>>

tickers ==
    \E symbols \in SymbolArgs :
        Call("tickers", symbols, "/tickers", tickers_args(symbols), D(<<>>), FALSE)

book ==
    \E market \in Markets :
        Call("book", market, "/book/" \o market.v, <<>>, D(<<>>), FALSE)

history == Fail("history", None, FALSE, "NotImplementedError", NoMessage)

price_changes ==
    Fail("price_changes", None, FALSE, "NotImplementedError", NoMessage)

fees == Call("fees", None, "/fees", <<>>, D(<<>>), FALSE)

Codes == {S("857ny")}

kuna_codes_check ==
    \E code \in Codes :
        Call("kuna_codes_check", code, "/kuna_codes/" \o code.v \o "/check",
             <<>>, D(<<>>), FALSE)

\* ----------------------------------------------------------- private API
http_test == Call("http_test", None, "/http_test", <<>>, D(<<>>), TRUE)

auth_me == Call("auth_me", None, "/auth/me", <<>>, D(<<>>), TRUE)

auth_r_wallets == Call("auth_r_wallets", None, "/auth/r/wallets", <<>>, D(<<>>), TRUE)

auth_r_orders ==
    \E market \in OptMarkets :
        Call("auth_r_orders", market,
             IF Truthy(market) THEN "/auth/r/orders/" \o market.v
             ELSE "/auth/r/orders",
             <<>>, D(<<>>), TRUE)

auth_r_orders_hist ==
    \E market \in OptMarkets :
        Call("auth_r_orders_hist", market,
             IF Truthy(market) THEN "/auth/r/orders/" \o market.v \o "/hist"
             ELSE "/auth/r/orders/hist",
             <<>>, D(<<>>), TRUE)

available_types == <<"limit", "market", "market_by_quote", "limit_stop_loss">>

available_types_repr == "('limit', 'market', 'market_by_quote', 'limit_stop_loss')"

OrderTypes == {"limit", "LIMIT", "invalid_type"}
Amounts == {1}
Prices == {None, I(600)}

\* the check of the type left out
order_type_any(type) == TRUE

\* type.lower() in available_types
order_type_ok(type) ==
    \E i \in 1..Len(available_types) : available_types[i] = lower(type)

auth_w_order_submit ==
    \E type \in OrderTypes, amount \in Amounts, price \in Prices :
        LET input == <<S("ethuah"), S(type), I(amount), price, None>>
        IN  IF ~order_type_ok(type)
            THEN Fail("auth_w_order_submit", input, TRUE, "APIError",
                      APIError(S("\"" \o type \o "\" is not one of available types "
                                 \o available_types_repr)).message)
            ELSE Call("auth_w_order_submit", input, "/auth/w/order/submit", <<>>,
                      D(<<<<"symbol", S("ethuah")>>, <<"type", S(type)>>,
                          <<"amount", I(amount)>>, <<"price", price>>,
                          <<"stop_price", None>>>>),
                      TRUE)

OrderIds == {5}

order_cancel ==
    \E order_id \in OrderIds :
        Call("order_cancel", I(order_id), "/order/cancel", <<>>,
             D(<<<<"order_id", I(order_id)>>>>), TRUE)

order_cancel_multi ==
    \E order_id \in OrderIds :
        Call("order_cancel_multi", L(<<I(order_id), I(order_id + 1)>>),
             "/order/cancel/multi", <<>>,
             D(<<<<"order_ids", L(<<I(order_id), I(order_id + 1)>>)>>>>), TRUE)

auth_deposit_info ==
    Call("auth_deposit_info", S("eth"), "/auth/deposit/info", <<>>,
         D(<<<<"currency", S("eth")>>>>), TRUE)

HistoryTypes == {None, S("withdraws"), S("deposits"), S("other")}

assets_history ==
    \E type \in HistoryTypes :
        IF type = None
        THEN Fail("assets_history", type, TRUE, "AttributeError", NoMessage)
        ELSE IF lower(type.v) \notin {"withdraws", "deposits"}
        THEN Fail("assets_history", type, TRUE, "APIError",
                  APIError(S("type must by 'withdraws', 'deposits' or None")).message)
        ELSE Call("assets_history", type,
                  IF Truthy(type) THEN "/auth/assets-history/" \o type.v
                  ELSE "/auth/assets-history",
                  <<>>, D(<<>>), TRUE)

\* ----------------------------------------------------------- old methods
\* an old method calls the current one without  return : the value of the
\* call is dropped, an exception passes through
alias_result(outcome) ==
    IF outcome.kind = "return" THEN Return(None) ELSE outcome

\* an old method that reaches  self._request(...)  through a current method
Forward(op, input, path, args, body, is_user_method) ==
    \E built \in {_request_build(path, args, body, is_user_method)} :
        \E resp \in Responses :
            \E r \in {_request_open(built, resp)} :
                /\ last' = [op |-> op, input |-> input,
                            is_user_method |-> is_user_method,
                            path |-> path, args |-> args, body |-> body,
                            resp |-> r.resp, req |-> built.req,
                            transmitted |-> r.transmitted,
                            outcome |-> alias_result(r.outcome)]
                /\ DEFAULT_HEADERS' = built.defaults
                /\ Remember

AliasMarkets == {S("btcuah")}

get_server_time ==
    Forward("get_server_time", None, "/timestamp", <<>>, D(<<>>), FALSE)

get_recent_market_data ==
    \E market \in AliasMarkets :
        Forward("get_recent_market_data", market, "/tickers",
                tickers_args(market), D(<<>>), FALSE)

\* self.book() is called without the market that book(market) requires
get_order_book ==
    \E market \in AliasMarkets :
        Fail("get_order_book", market, FALSE, "TypeError", NoMessage)

\* self.history() raises NotImplementedError as history does, and the
\* exception passes through the old method
get_trades_history ==
    \E market \in AliasMarkets :
        Fail("get_trades_history", market, FALSE, "NotImplementedError", NoMessage)

get_user_account_info ==
    Forward("get_user_account_info", None, "/auth/me", <<>>, D(<<>>), TRUE)

get_orders ==
    \E market \in AliasMarkets :
        Forward("get_orders", market,
                IF Truthy(market) THEN "/auth/r/orders/" \o market.v
                ELSE "/auth/r/orders",
                <<>>, D(<<>>), TRUE)

abs(n) == IF n < 0 THEN -n ELSE n

Sides == {"buy", "Buy", "sell"}
SignedAmounts == {1, -1}

\* amount = abs(amount) for a buy, -1 * abs(amount) otherwise
put_order_amount(side, amount) ==
    IF lower(side) = "buy" THEN abs(amount) ELSE -1 * abs(amount)

put_order ==
    \E side \in Sides, amount \in SignedAmounts :
        LET input == <<S(side), I(amount), S("ethuah"), I(600)>>
        IN  IF ~order_type_ok("limit")
            THEN Fail("put_order", input, TRUE, "APIError",
                      APIError(S("\"limit\" is not one of available types "
                                 \o available_types_repr)).message)
            ELSE Forward("put_order", input, "/auth/w/order/submit", <<>>,
                         D(<<<<"symbol", S("ethuah")>>, <<"type", S("limit")>>,
                             <<"amount", I(put_order_amount(side, amount))>>,
                             <<"price", I(600)>>, <<"stop_price", None>>>>),
                         TRUE)

cancel_order ==
    \E order_id \in OrderIds :
        Forward("cancel_order", I(order_id), "/order/cancel", <<>>,
                D(<<<<"order_id", I(order_id)>>>>), TRUE)

get_trade_history ==
    \E market \in AliasMarkets :
        Forward("get_trade_history", market,
                IF Truthy(market) THEN "/auth/r/orders/" \o market.v \o "/hist"
                ELSE "/auth/r/orders/hist",
                <<>>, D(<<>>), TRUE)

\* --------------------------------------------------------- specification
Next ==
    \/ Tick
    \/ timestamp
    \/ currencies
    \/ exchange_rates
    \/ markets
    \/ tickers
    \/ book
    \/ history
    \/ price_changes
    \/ fees
    \/ kuna_codes_check
    \/ http_test
    \/ auth_me
    \/ auth_r_wallets
    \/ auth_r_orders
    \/ auth_r_orders_hist
    \/ auth_w_order_submit
    \/ order_cancel
    \/ order_cancel_multi
    \/ auth_deposit_info
    \/ assets_history
    \/ get_server_time
    \/ get_recent_market_data
    \/ get_order_book
    \/ get_trades_history
    \/ get_user_account_info
    \/ get_orders
    \/ put_order
    \/ cancel_order
    \/ get_trade_history

Spec == Init /\ [][Next]_vars

\* ================================================================ claims
KeysMissing == (public_key = None) \/ (private_key = None)
Called == last.op # "__init__"
Attempted == last.req # <<>>
Request == last.req[1]
IsError(status) == ~(status >= 200 /\ status < 300)
KunHeaders == {"kun-apikey", "kun-nonce", "kun-signature"}
NotImplemented == {"history", "price_changes"}

\* the part of a URL after the scheme and host
UriOf(url) == SubSeq(url, Len(endpoint) + 1, Len(url))

\* the part of a URL after the question mark
QueryOf(url) ==
    LET i == CHOOSE i \in 1..Len(url) : Char(url, i) = "?"
    IN  SubSeq(url, i + 1, Len(url))

\* the integer a nonce header denotes
IntOf(s) == CHOOSE n \in 0..(T0 + MaxTicks) : ToString(n) = s

\* C1: an authenticated method called on a client that lacks the public key,
\* the private key or both raises MissingCredentialsError and no request is
\* handed to the transport.
C1_MissingKeysFailFast ==
    (Called /\ last.is_user_method /\ KeysMissing)
    => /\ last.outcome.kind = "raise"
       /\ last.outcome.exc = "MissingCredentialsError"
       /\ ~Attempted

\* C2: in every authenticated request that is transmitted, kun-signature is
\* the hex HMAC-SHA384, keyed by the private key, of uri + nonce + body, with
\* uri the requested URL after the host, nonce the kun-nonce header and body
\* the data sent, which is the JSON text of the call's body; kun-apikey is
\* the public key.
C2_SignatureCoversRequest ==
    (last.is_user_method /\ last.transmitted)
    => /\ private_key # None
       /\ SubSeq(Request.url, 1, Len(endpoint)) = endpoint
       /\ Request.headers["kun-nonce"].t = "str"
       /\ Request.headers["kun-signature"]
            = hexdigest(private_key.v,
                        UriOf(Request.url) \o Request.headers["kun-nonce"].v
                        \o Request.data)
       /\ Request.headers["kun-apikey"] = public_key

C2_Witness ==
    /\ last.op = "auth_w_order_submit"
    /\ last.transmitted
    /\ Request.headers["kun-nonce"].v = "10"

\* C3: in every request handed to the transport the private key is not part
\* of the URL, not part of the body and not the value of any header.
C3_PrivateKeyNotTransmitted ==
    (Attempted /\ private_key # None)
    => /\ ~Contains(Request.url, private_key.v)
       /\ ~Contains(Request.data, private_key.v)
       /\ \A k \in DOMAIN Request.headers :
             /\ Request.headers[k] # private_key
             /\ Request.headers[k].t = "str"
                  => ~Contains(Request.headers[k].v, private_key.v)

C3_Witness ==
    /\ last.is_user_method
    /\ last.transmitted
    /\ private_key = S("secret")
    /\ Request.headers["kun-signature"].key = "secret"

\* C4: a response with a status outside 2xx whose body is JSON with a
\* messages field makes the method raise APIError with that field's value
\* as its message; nothing is returned.
C4_MessagesBecomeAPIError ==
    (last.transmitted /\ IsError(last.resp.status) /\ last.resp.body = BodyMessages)
    => /\ last.outcome.kind = "raise"
       /\ last.outcome.exc = "APIError"
       /\ last.outcome.message = L(<<S("bad")>>)

C4_Witness ==
    /\ last.transmitted
    /\ last.resp = Response(422, BodyMessages)
    /\ last.outcome.exc = "APIError"

\* C5: a response with a status outside 2xx whose body is not JSON makes the
\* method raise APIError carrying the raw text of the body; no other
\* exception escapes.
C5_RawTextBecomesAPIError ==
    (last.transmitted /\ IsError(last.resp.status) /\ last.resp.body = BodyHtml)
    => /\ last.outcome.kind = "raise"
       /\ last.outcome.exc = "APIError"
       /\ last.outcome.message = S(BodyHtml)

\* the calls whose type argument is outside the allowed set
OrderTypeNames == {"limit", "market", "market_by_quote", "limit_stop_loss"}
HistoryTypeNames == {"withdraws", "deposits"}

\* C6 (as stated): auth_w_order_submit with a type outside the four order
\* types, and assets_history with a type string outside withdraws and
\* deposits, raise InvalidArgumentError and no request is sent.
C6_InvalidArgumentError ==
    ( \/ (last.op = "auth_w_order_submit" /\ last.input[2].v \notin OrderTypeNames)
      \/ (last.op = "assets_history" /\ last.input.t = "str"
            /\ last.input.v \notin HistoryTypeNames) )
    => /\ last.outcome.kind = "raise"
       /\ last.outcome.exc = "InvalidArgumentError"
       /\ ~Attempted

\* C6 (amended): auth_w_order_submit with a type whose lower-case form is
\* outside the four order types, and assets_history with a type string whose
\* lower-case form is outside withdraws and deposits, raise APIError and no
\* request is handed to the transport.
C6_RejectedWithAPIError ==
    ( \/ (last.op = "auth_w_order_submit"
            /\ lower(last.input[2].v) \notin OrderTypeNames)
      \/ (last.op = "assets_history" /\ last.input.t = "str"
            /\ lower(last.input.v) \notin HistoryTypeNames) )
    => /\ last.outcome.kind = "raise"
       /\ last.outcome.exc = "APIError"
       /\ last.outcome.message.t = "str"
       /\ ~Attempted
       /\ ~last.transmitted

C6_Witness ==
    /\ last.op = "auth_w_order_submit"
    /\ last.input[2] = S("invalid_type")
    /\ last.outcome.exc = "APIError"
    /\ ~Attempted

\* the current unauthenticated methods (the old methods are claim C11's)
PublicMethods ==
    {"timestamp", "currencies", "exchange_rates", "markets", "tickers", "book",
     "history", "price_changes", "fees", "kuna_codes_check"}

\* C7: on a client that lacks a key, a public method hands exactly one GET
\* for endpoint + prefix + path[?query] to the transport, without any of the
\* kun- headers, and does not fail for want of credentials (history and
\* price_changes raise NotImplementedError whatever the keys).
C7_PublicWithoutKeys ==
    (last.op \in PublicMethods /\ ~last.is_user_method /\ KeysMissing)
    => IF last.op \in NotImplemented
       THEN last.outcome.exc = "NotImplementedError"
       ELSE /\ Len(last.req) = 1
            /\ Request.method = "GET"
            /\ Request.url = endpoint \o prefix \o last.path
                   \o (IF last.args # <<>> THEN "?" \o urlencode(last.args) ELSE "")
            /\ KunHeaders \cap DOMAIN Request.headers = {}
            /\ last.outcome.exc \notin
                  {"MissingCredentialsError", "AttributeError", "TypeError"}
            /\ last.outcome.message # S(KEYS_NEED_MESSAGE)

C7_Witness ==
    /\ public_key = None
    /\ private_key = None
    /\ last.op = "tickers"
    /\ last.transmitted
    /\ last.outcome.kind = "return"

\* C8 (as stated): tickers sends the query symbols=ALL without an argument,
\* the symbols joined by literal commas for a list, symbols=s for a string s.
C8_TickersQueryLiteral ==
    (last.op = "tickers" /\ Attempted)
    => QueryOf(Request.url) =
          (IF last.input.t = "str" THEN "symbols=" \o last.input.v
           ELSE IF last.input.t = "list"
           THEN "symbols=" \o Join(",", [i \in 1..Len(last.input.v) |-> last.input.v[i].v])
           ELSE "symbols=ALL")

\* C8 (amended): tickers sends the query symbols=ALL without an argument; the
\* value is URL-encoded, so the list ["a","b"] and the string "a,b" are sent
\* as symbols=a%2Cb, and a string of letters is sent as it is.
C8_TickersQueryEncoded ==
    (last.op = "tickers" /\ Attempted)
    => QueryOf(Request.url) =
          (CASE last.input = None -> "symbols=ALL"
             [] last.input = S("btcuah") -> "symbols=btcuah"
             [] last.input = S("a,b") -> "symbols=a%2Cb"
             [] last.input = L(<<S("a"), S("b")>>) -> "symbols=a%2Cb")

C8_Witness ==
    /\ last.op = "tickers"
    /\ last.input = L(<<S("a"), S("b")>>)
    /\ last.transmitted
    /\ Request.url = "https://api.kuna.io/v3/tickers?symbols=a%2Cb"

\* C9: of two authenticated requests transmitted one after the other by the
\* same client, the later one has the strictly greater kun-nonce, compared
\* as integers.
C9_NonceStrictlyIncreasing ==
    (last.is_user_method /\ last.transmitted /\ nonce_before # <<>>)
    => IntOf(nonce_before[1]) < IntOf(Request.headers["kun-nonce"].v)

\* C10: a request from an authenticated method is a POST whose data is the
\* JSON text of the body, a request from a public method is a GET; every
\* request carries accept and content-type application/json; DEFAULT_HEADERS
\* is never changed by a call.
C10_VerbAndFixedHeaders ==
    /\ DEFAULT_HEADERS = DefaultHeaders0
    /\ Attempted =>
          /\ Request.method = (IF last.is_user_method THEN "POST" ELSE "GET")
          /\ last.is_user_method => Request.data = json_dumps(last.body)
          /\ Request.headers["accept"] = S("application/json")
          /\ Request.headers["content-type"] = S("application/json")

C10_Witness ==
    /\ nonce_before # <<>>
    /\ ~last.is_user_method
    /\ last.transmitted
    /\ Request.method = "GET"

\* what the current method behind an old method gives for the same arguments
\* and the same response: its path, whether it is authenticated, and its
\* query arguments
CanonicalPath ==
    [get_server_time |-> "/timestamp",
     get_recent_market_data |-> "/tickers",
     get_order_book |-> "/book/btcuah",
     get_user_account_info |-> "/auth/me",
     get_orders |-> "/auth/r/orders/btcuah",
     put_order |-> "/auth/w/order/submit",
     cancel_order |-> "/order/cancel",
     get_trade_history |-> "/auth/r/orders/btcuah/hist"]

CanonicalQuery ==
    [get_server_time |-> "", get_recent_market_data |-> "?symbols=btcuah",
     get_order_book |-> "", get_user_account_info |-> "", get_orders |-> "",
     put_order |-> "", cancel_order |-> "", get_trade_history |-> ""]

OldMethods == DOMAIN CanonicalPath \cup {"get_trades_history"}

\* C11: an old method sends the request of its current method and gives the
\* same result or error (on a client with both keys where the method is
\* authenticated): get_trades_history raises NotImplementedError as
\* history does; every other old method hands one request for the current
\* method's URL to the transport, and when the response is a 2xx with a JSON
\* body it returns the parsed body, as the current method does.
C11_AliasesForward ==
    (last.op \in OldMethods /\ (last.is_user_method => ~KeysMissing))
    => IF last.op = "get_trades_history"
       THEN last.outcome.exc = "NotImplementedError"
       ELSE /\ Len(last.req) = 1
            /\ Request.url = endpoint \o prefix \o CanonicalPath[last.op]
                                \o CanonicalQuery[last.op]
            /\ (last.transmitted /\ ~IsError(last.resp.status)
                  /\ last.resp.body = BodyDict)
               => last.outcome = Return(D(<<<<"error", S("x")>>>>))

\* C12: on a client with both keys assets_history(None) raises no argument
\* error and sends one authenticated request to /auth/assets-history; with
\* withdraws or deposits it sends one to /auth/assets-history/{type}.
C12_AssetsHistoryAcceptsNone ==
    (last.op = "assets_history" /\ ~KeysMissing
       /\ last.input \in {None, S("withdraws"), S("deposits")})
    => /\ Len(last.req) = 1
       /\ Request.method = "POST"
       /\ "kun-signature" \in DOMAIN Request.headers
       /\ Request.url = endpoint \o prefix \o "/auth/assets-history"
              \o (IF last.input = None THEN "" ELSE "/" \o last.input.v)
       /\ last.outcome.exc \notin {"AttributeError", "TypeError"}
       /\ ~(last.outcome.exc = "APIError" /\ ~last.transmitted)

\* the JSON text of a body field as json.dumps writes it
WireField(key, text) == "\"" \o key \o "\": " \o text

\* C13: every order-submit request that is transmitted, by auth_w_order_submit
\* or by put_order, has in its body a type that is exactly one of limit,
\* market, market_by_quote, limit_stop_loss, and put_order sends a positive
\* amount for a buy and a negative amount for a sell.
C13_OrderTypeOnWire ==
    (last.op \in {"auth_w_order_submit", "put_order"} /\ last.transmitted)
    => /\ \E type \in OrderTypeNames :
             Contains(Request.data, WireField("type", "\"" \o type \o "\","))
       /\ last.op = "put_order" =>
             /\ last.input[1].v \in {"buy", "Buy"} =>
                   Contains(Request.data, WireField("amount", "1,"))
             /\ last.input[1].v = "sell" =>
                   Contains(Request.data, WireField("amount", "-1,"))

====
